---- MODULE Spec2Model ----
(***************************************************************************)
(* A model of the options-news dashboard front end: the App component      *)
(* (batch snapshot request, selection), the TickerForm (ticker             *)
(* normalisation), SymbolTabs (article analysis requests) and NewsList     *)
(* (relative-time parsing and the 24 hour freshness filter).               *)
(*                                                                         *)
(* Optional values (T | null) are sequences: <<>> is null, <<x>> is x.     *)
(* Text that the code inspects character by character (the ticker input,   *)
(* relative-time labels) is a sequence of one-character strings.           *)
(* Messages built by template literals are sequences of their parts.       *)
(***************************************************************************)
EXTENDS Integers, Sequences, FiniteSets, TLC

VARIABLES
    snapshots,        \* App: useState<SymbolSnapshot[]>([])
    selected,         \* App: useState<SymbolSnapshot | null>(null)
    loading,          \* App: useState(false)
    error,            \* App: useState<string | null>(null)
    batchInflight,    \* fetchMultiSnapshot calls that have not settled
    activeId,         \* SymbolTabs: useState("overview")
    selectedNewsUrl,  \* SymbolTabs: useState<string | null>(null)
    analysis,         \* SymbolTabs: useState<ArticleAnalysis | null>(null)
    loadingImpact,    \* SymbolTabs: useState(false)
    impactError,      \* SymbolTabs: useState<string | null>(null)
    articleInflight,  \* analyzeArticle calls that have not settled
    nUserActions,     \* history: user actions taken
    nRequests,        \* history: backend requests issued
    last,             \* history: the step that led to this state
    tickerInput,      \* TickerForm: useState("")
    newsItems,        \* NewsList: the items prop
    filtered,         \* NewsList: the list it renders
    parsedLabel,      \* relativeTimeToHours: its argument
    parsedHours,      \* relativeTimeToHours: what it returned
    options,          \* snapshot.options of a snapshot held by App
    received,         \* history: snapshot.options as the fetch response held it
    row,              \* SymbolSummaryTable: what a row computes for the snapshot
    card,             \* OptionSummaryCard: what the card computes for the snapshot
    syncPending,      \* App: the sync effect is due (its dependencies changed)
    syncRuns          \* history: runs of the sync effect since the last commit

appVars == <<snapshots, selected, loading, error, batchInflight>>
tabVars == <<activeId, selectedNewsUrl, analysis, loadingImpact, impactError, articleInflight>>
histVars == <<nUserActions, nRequests, last>>
formVars == <<tickerInput>>
newsVars == <<newsItems, filtered>>
parseVars == <<parsedLabel, parsedHours>>
cardVars == <<options, received, row, card>>
syncVars == <<syncPending, syncRuns>>
viewVars == <<parseVars, cardVars, syncVars>>
vars == <<appVars, tabVars, histVars, formVars, newsVars, viewVars>>

None == <<>>
Some(x) == <<x>>

(***************************************************************************)
(* Bounds of the model.                                                    *)
(***************************************************************************)
MaxLen == 4          \* characters typed into the ticker input
MaxResp == 2         \* snapshots in one batch response
MaxUserActions == 3  \* user actions in one run
MaxItems == 2        \* items in an enumerated news list
MaxDigits == 2       \* digits of the number in a generated label
MaxContracts == 2    \* contracts in a calls or puts list
MaxSyncRuns == 3     \* runs of the sync effect that are followed

(***************************************************************************)
(* TickerForm.handleSubmit: the ticker input is split, trimmed,            *)
(* upper-cased and filtered.                                               *)
(***************************************************************************)
InputChars == {"a", "A", "b", ",", " "}

IsSpace(c) == c = " "

IsSep(c) == c = "," \/ IsSpace(c)

ToUpperChar(c) == CASE c = "a" -> "A" [] c = "b" -> "B" [] OTHER -> c

ToUpperCase(t) == [i \in 1..Len(t) |-> ToUpperChar(t[i])]

RECURSIVE SplitFrom(_, _, _, _, _)
SplitFrom(s, i, cur, out, inSep) ==
    IF i > Len(s) THEN Append(out, cur)
    ELSE IF IsSep(s[i])
         THEN IF inSep THEN SplitFrom(s, i + 1, cur, out, TRUE)
              ELSE SplitFrom(s, i + 1, <<>>, Append(out, cur), TRUE)
         ELSE SplitFrom(s, i + 1, Append(cur, s[i]), out, FALSE)

\* String.prototype.split(/[,\s]+/): the pieces between the separator runs,
\* an empty piece before a leading run and after a trailing run.
Split(s) == SplitFrom(s, 1, <<>>, <<>>, FALSE)

RECURSIVE TrimStart(_)
TrimStart(t) == IF t # <<>> /\ IsSpace(Head(t)) THEN TrimStart(Tail(t)) ELSE t

RECURSIVE TrimEnd(_)
TrimEnd(t) ==
    IF t # <<>> /\ IsSpace(t[Len(t)]) THEN TrimEnd(SubSeq(t, 1, Len(t) - 1)) ELSE t

Trim(t) == TrimEnd(TrimStart(t))

\* A mutant: the pieces are not upper-cased.
MapTrimUpperDropCase(pieces) == [k \in 1..Len(pieces) |-> Trim(pieces[k])]

\* .map((t) => t.trim().toUpperCase())
MapTrimUpper(pieces) == [k \in 1..Len(pieces) |-> ToUpperCase(Trim(pieces[k]))]

\* A mutant: empty pieces are kept.
FilterKeepEmpty(pieces) == pieces

\* .filter(Boolean)
FilterBoolean(pieces) == SelectSeq(pieces, LAMBDA t : t # <<>>)

\* The tickers handleSubmit computes from the input.
NormalizeTickers(input) == FilterBoolean(MapTrimUpper(Split(input)))

(***************************************************************************)
(* The backend's answers. A SymbolSnapshot is its ticker and the links of  *)
(* its news items; two snapshots may carry the same ticker.                *)
(***************************************************************************)
Snaps ==
    { [ticker |-> "A", news |-> <<"u1", "u2">>],
      [ticker |-> "A", news |-> <<>>],
      [ticker |-> "B", news |-> <<"u3">>] }

RECURSIVE SeqsUpTo(_, _)
SeqsUpTo(S, n) ==
    IF n = 0 THEN {<<>>}
    ELSE LET shorter == SeqsUpTo(S, n - 1)
         IN  shorter \cup {Append(q, x) : q \in {r \in shorter : Len(r) = n - 1}, x \in S}

Responses == SeqsUpTo(Snaps, MaxResp)

\* Every text of at most MaxLen characters.
TickerInputs == SeqsUpTo(InputChars, MaxLen)

\* The texts typed into the form of the running dashboard.
TypedInputs ==
    { <<>>, <<",", " ">>, <<"a", ",", "A">>, <<"b", " ", ",", "a">> }

\* A response that is not ok: its status and its body text.
HttpFailures ==
    { [status |-> 404, text |-> "not found"],
      [status |-> 500, text |-> ""] }

\* What fetch itself rejects with: err.message absent, empty, or a text.
NetworkErrors == {None, Some(<<>>), Some(<<"Failed to fetch">>)}

\* A mutant: the message leaves out the status.
ApiErrorWithoutStatus(status, text) == <<"API error: ", text>>

\* `API error: ${res.status} ${text}`
ApiErrorMessage(status, text) == <<"API error: ", ToString(status), " ", text>>

\* A mutant: the message leaves out the status.
ArticleErrorWithoutStatus(status, text) == <<"Article analysis failed: ", text>>

\* `Article analysis failed: ${resp.status} ${text}`
ArticleErrorMessage(status, text) ==
    <<"Article analysis failed: ", ToString(status), " ", text>>

\* err.message || "Failed to fetch data"
SearchErrorText(message) ==
    IF message = None \/ message = Some(<<>>) THEN <<"Failed to fetch data">>
    ELSE message[1]

\* err.message ?? "Failed to analyze article"
ImpactErrorText(message) ==
    IF message = None THEN <<"Failed to analyze article">> ELSE message[1]

(***************************************************************************)
(* App: the effect that keeps the selection in sync with the snapshots.    *)
(***************************************************************************)
FirstMatch(snaps, ticker) ==
    LET hits == {k \in 1..Len(snaps) : snaps[k].ticker = ticker}
    IN  IF hits = {} THEN None
        ELSE Some(snaps[CHOOSE k \in hits : \A j \in hits : k <= j])

\* A mutant: the effect selects a snapshot of the ticker that the backend
\* sent at some time, not the one of the current list.
SyncEffectStale(snaps, sel) ==
    IF Len(snaps) = 0 THEN None
    ELSE IF sel # None /\ FirstMatch(snaps, sel[1].ticker) # None
         THEN Some(CHOOSE s \in Snaps : s.ticker = sel[1].ticker)
         ELSE Some(snaps[1])

\* A mutant: the effect moves the selection off the first snapshot.
SyncEffectFlip(snaps, sel) ==
    IF Len(snaps) = 0 THEN None
    ELSE IF sel = Some(snaps[1]) THEN Some(snaps[Len(snaps)])
    ELSE Some(snaps[1])

\* One run of the effect: the selection it sets.
SyncEffect(snaps, sel) ==
    IF Len(snaps) = 0 THEN None
    ELSE IF sel # None /\ FirstMatch(snaps, sel[1].ticker) # None
         THEN FirstMatch(snaps, sel[1].ticker)
         ELSE Some(snaps[1])

\* The effect runs again whenever it changed the selection.
RECURSIVE SyncSettle(_, _)
SyncSettle(snaps, sel) ==
    LET next == SyncEffect(snaps, sel)
    IN  IF next = sel THEN sel ELSE SyncSettle(snaps, next)

(***************************************************************************)
(* SymbolTabs. It is rendered by SymbolDetailPanel, which App renders only *)
(* while it is not loading and holds snapshots, and which renders          *)
(* SymbolTabs only for a non-null snapshot.                                *)
(***************************************************************************)
\* A mutant: App renders the detail panel while loading too.
TabsMountedWhileLoading(ld, snaps, sel) == Len(snaps) > 0 /\ sel # None

TabsMounted(ld, snaps, sel) == ~ld /\ Len(snaps) > 0 /\ sel # None

FreshTabs ==
    [activeId |-> "overview", selectedNewsUrl |-> None, analysis |-> None,
     loadingImpact |-> FALSE, impactError |-> None]

CurrentTabs ==
    [activeId |-> activeId, selectedNewsUrl |-> selectedNewsUrl, analysis |-> analysis,
     loadingImpact |-> loadingImpact, impactError |-> impactError]

\* The effect on [snapshot.ticker].
ResetEffect(t, snap) ==
    [t EXCEPT !.activeId = "overview",
              !.selectedNewsUrl = IF Len(snap.news) > 0 THEN Some(snap.news[1]) ELSE None,
              !.analysis = None,
              !.impactError = None]

\* run() of the effect on [activeId, selectedNewsUrl, snapshot.ticker] goes on
\* to call analyzeArticle.
AnalysisEffectRuns(aid, url) == aid = "impact" /\ url # None

AnalysisEffectStart(t) == [t EXCEPT !.loadingImpact = TRUE, !.impactError = None]

ArticleRequest(ticker, url) == [ticker |-> ticker, url |-> url, live |-> TRUE]

\* Requests of an instance that was unmounted: its state setters do nothing.
Orphaned(reqs) == [k \in 1..Len(reqs) |-> [reqs[k] EXCEPT !.live = FALSE]]

\* SymbolTabs as of the previous render of App.
TabsNow ==
    [mounted |-> TabsMounted(loading, snapshots, selected),
     ticker |-> IF selected = None THEN "" ELSE selected[1].ticker,
     tabs |-> CurrentTabs, reqs |-> articleInflight, issued |-> 0]

\* SymbolTabs after one render of App with (ld, snaps, sel) and the effects
\* of that commit: unmounted, mounted anew, left alone (same ticker), or
\* both effects run for the new ticker, the analysis effect with the
\* activeId and selectedNewsUrl of the render it was created in.
TabsAfterRender(st, ld, snaps, sel) ==
    IF ~TabsMounted(ld, snaps, sel)
    THEN [mounted |-> FALSE, ticker |-> "", tabs |-> FreshTabs,
          reqs |-> Orphaned(st.reqs), issued |-> st.issued]
    ELSE IF ~st.mounted
    THEN [mounted |-> TRUE, ticker |-> sel[1].ticker,
          tabs |-> ResetEffect(FreshTabs, sel[1]),
          reqs |-> st.reqs, issued |-> st.issued]
    ELSE IF st.ticker = sel[1].ticker
    THEN st
    ELSE IF AnalysisEffectRuns(st.tabs.activeId, st.tabs.selectedNewsUrl)
    THEN [mounted |-> TRUE, ticker |-> sel[1].ticker,
          tabs |-> ResetEffect(AnalysisEffectStart(st.tabs), sel[1]),
          reqs |-> Append(st.reqs,
                          ArticleRequest(sel[1].ticker, st.tabs.selectedNewsUrl[1])),
          issued |-> st.issued + 1]
    ELSE [mounted |-> TRUE, ticker |-> sel[1].ticker,
          tabs |-> ResetEffect(st.tabs, sel[1]),
          reqs |-> st.reqs, issued |-> st.issued]

SetTabs(t) ==
    /\ activeId' = t.activeId
    /\ selectedNewsUrl' = t.selectedNewsUrl
    /\ analysis' = t.analysis
    /\ loadingImpact' = t.loadingImpact
    /\ impactError' = t.impactError

\* What a step records of itself: its kind, the status (a failed response),
\* whether the user took it, and the fetchMultiSnapshot calls it made. The
\* history keeps, besides, the requests the step issued, whether a settled
\* analyzeArticle call was of the mounted SymbolTabs, and the number of
\* snapshots held before the step.
Event(kind, status, user, batch) ==
    [kind |-> kind, status |-> status, user |-> user, batch |-> batch]

Record(ev, issued, live) ==
    /\ nUserActions' = nUserActions + ev.user
    /\ nRequests' = nRequests + issued
    /\ last' = [kind |-> ev.kind, status |-> ev.status, issued |-> issued,
                live |-> live, prior |-> Len(snapshots)]

\* App re-renders with (ld, snaps, sel), SymbolTabs follows, the sync effect
\* settles the selection and App re-renders with what it set.
Render(ld, snaps, sel, ev) ==
    LET settled == SyncSettle(snaps, sel)
        r == TabsAfterRender(TabsAfterRender(TabsNow, ld, snaps, sel), ld, snaps, settled)
    IN  /\ loading' = ld
        /\ snapshots' = snaps
        /\ selected' = settled
        /\ SetTabs(r.tabs)
        /\ articleInflight' = r.reqs
        /\ Record(ev, r.issued + ev.batch, FALSE)

Range(q) == {q[k] : k \in DOMAIN q}

\* The positions of the requests in flight.
Slots == 1..MaxUserActions

RemoveAt(q, i) == [k \in 1..(Len(q) - 1) |-> IF k < i THEN q[k] ELSE q[k + 1]]

(***************************************************************************)
(* App and TickerForm.                                                     *)
(***************************************************************************)
\* A mutant: the submit control stays enabled while loading.
SubmitAlwaysEnabled == TRUE

\* <button type="submit" disabled={loading}>: no submission, by click or by
\* the Enter key, while the form's submit button is disabled.
SubmitEnabled == ~loading

\* A mutant: the error of the search before is not cleared.
HandleSearchKeepsError(tickers) ==
    /\ error' = error
    /\ batchInflight' = Append(batchInflight, [tickers |-> tickers])
    /\ Render(TRUE, snapshots, selected, Event("submit", 0, 1, 1))

\* handleSearch up to its await.
HandleSearch(tickers) ==
    /\ error' = None
    /\ batchInflight' = Append(batchInflight, [tickers |-> tickers])
    /\ Render(TRUE, snapshots, selected, Event("submit", 0, 1, 1))

\* TickerForm.handleSubmit, for the text the user typed into the ticker input
\* (onChange, setTickerInput) before submitting.
HandleSubmit(input) ==
    /\ SubmitEnabled
    /\ nUserActions < MaxUserActions
    /\ tickerInput' = input
    /\ UNCHANGED <<newsVars, viewVars>>
    /\ IF Len(NormalizeTickers(input)) = 0
       THEN /\ UNCHANGED <<appVars, tabVars>>
            /\ Record(Event("submitEmpty", 0, 1, 0), 0, FALSE)
       ELSE HandleSearch(NormalizeTickers(input))

\* A mutant: the last element is selected.
LastOrNull(result) == IF Len(result) > 0 THEN Some(result[Len(result)]) ELSE None

\* result[0] ?? null
FirstOrNull(result) == IF Len(result) > 0 THEN Some(result[1]) ELSE None

\* res.ok
ResOk(status) == status >= 200 /\ status <= 299

\* handleSearch after its await, fetchMultiSnapshot having resolved.
BatchSuccess(i, result) ==
    /\ i \in DOMAIN batchInflight
    /\ batchInflight' = RemoveAt(batchInflight, i)
    /\ UNCHANGED <<error, formVars, newsVars, viewVars>>
    /\ Render(FALSE, result, FirstOrNull(result), Event("batchSuccess", 200, 0, 0))

\* The catch block and the finally block of handleSearch.
SearchFailed(i, message, ev) ==
    /\ i \in DOMAIN batchInflight
    /\ batchInflight' = RemoveAt(batchInflight, i)
    /\ error' = Some(SearchErrorText(message))
    /\ UNCHANGED <<formVars, newsVars, viewVars>>
    /\ Render(FALSE, <<>>, None, ev)

\* fetchMultiSnapshot throws for a response that is not ok.
BatchHttpError(i, res) ==
    /\ ~ResOk(res.status)
    /\ SearchFailed(i, Some(ApiErrorMessage(res.status, res.text)),
                    Event("batchHttpError", res.status, 0, 0))

\* fetch itself rejects.
BatchNetworkError(i, message) ==
    SearchFailed(i, message, Event("batchNetworkError", 0, 0, 0))

\* onClick={() => onSelect(snap)} of a row of SymbolSummaryTable, which App
\* renders while it is not loading and holds snapshots.
RowClick(k) ==
    /\ ~loading
    /\ k \in DOMAIN snapshots
    /\ nUserActions < MaxUserActions
    /\ UNCHANGED <<error, batchInflight, formVars, newsVars, viewVars>>
    /\ Render(loading, snapshots, Some(snapshots[k]), Event("rowClick", 0, 1, 0))

(***************************************************************************)
(* SymbolTabs: the tabs, the article selector and the analysis effect.     *)
(***************************************************************************)
\* The effect on [activeId, selectedNewsUrl, snapshot.ticker], run for the
\* render with (aid, url) when one of them changed.
AnalysisEffect(aid, url, changed, ev) ==
    IF changed /\ AnalysisEffectRuns(aid, url)
    THEN /\ loadingImpact' = TRUE
         /\ impactError' = None
         /\ articleInflight' =
                Append(articleInflight, ArticleRequest(selected[1].ticker, url[1]))
         /\ Record(ev, 1, FALSE)
    ELSE /\ UNCHANGED <<loadingImpact, impactError, articleInflight>>
         /\ Record(ev, 0, FALSE)

TabIds == {"overview", "impact"}

\* onClick={() => onChange(tab.id)} of a tab header, onChange={setActiveId}
TabChange(id) ==
    /\ TabsMounted(loading, snapshots, selected)
    /\ nUserActions < MaxUserActions
    /\ activeId' = id
    /\ UNCHANGED <<appVars, selectedNewsUrl, analysis, formVars, newsVars, viewVars>>
    /\ AnalysisEffect(id, selectedNewsUrl, id # activeId, Event("tabChange", 0, 1, 0))

\* onChange of the select of NewsUrlSelector, which the impact tab shows
\* for a snapshot with news: onChange={setSelectedNewsUrl}
SelectArticle(k) ==
    /\ TabsMounted(loading, snapshots, selected)
    /\ activeId = "impact"
    /\ k \in DOMAIN selected[1].news
    /\ nUserActions < MaxUserActions
    /\ selectedNewsUrl' = Some(selected[1].news[k])
    /\ UNCHANGED <<appVars, activeId, analysis, formVars, newsVars, viewVars>>
    /\ AnalysisEffect(activeId, Some(selected[1].news[k]),
                      Some(selected[1].news[k]) # selectedNewsUrl,
                      Event("selectArticle", 0, 1, 0))

\* A mutant: the analysis is taken to be of the article selected now.
AnalysisOfSelection(req) ==
    [url |-> IF selectedNewsUrl = None THEN req.url ELSE selectedNewsUrl[1],
     ticker |-> req.ticker]

\* The ArticleAnalysis the backend returns for a request.
AnalysisOf(req) == [url |-> req.url, ticker |-> req.ticker]

\* run() after its await, analyzeArticle having resolved. The state setters
\* of an unmounted instance do nothing.
AnalysisSuccess(j) ==
    /\ j \in DOMAIN articleInflight
    /\ articleInflight' = RemoveAt(articleInflight, j)
    /\ UNCHANGED <<appVars, activeId, selectedNewsUrl, impactError, formVars, newsVars, viewVars>>
    /\ IF articleInflight[j].live
       THEN /\ analysis' = Some(AnalysisOf(articleInflight[j]))
            /\ loadingImpact' = FALSE
       ELSE UNCHANGED <<analysis, loadingImpact>>
    /\ Record(Event("analysisSuccess", 200, 0, 0), 0, articleInflight[j].live)

\* The catch block and the finally block of run().
AnalysisFailed(j, message, ev) ==
    /\ j \in DOMAIN articleInflight
    /\ articleInflight' = RemoveAt(articleInflight, j)
    /\ UNCHANGED <<appVars, activeId, selectedNewsUrl, formVars, newsVars, viewVars>>
    /\ IF articleInflight[j].live
       THEN /\ impactError' = Some(ImpactErrorText(message))
            /\ analysis' = None
            /\ loadingImpact' = FALSE
       ELSE UNCHANGED <<impactError, analysis, loadingImpact>>
    /\ Record(ev, 0, articleInflight[j].live)

\* analyzeArticle throws for a response that is not ok.
AnalysisHttpError(j, res) ==
    /\ ~ResOk(res.status)
    /\ AnalysisFailed(j, Some(ArticleErrorMessage(res.status, res.text)),
                      Event("analysisHttpError", res.status, 0, 0))

\* fetch itself rejects.
AnalysisNetworkError(j, message) ==
    AnalysisFailed(j, message, Event("analysisNetworkError", 0, 0, 0))

(***************************************************************************)
(* NewsList: relativeTimeToHours and the filter on the last 24 hours.      *)
(* A label is its characters; an age in hours is a fraction num / den.     *)
(***************************************************************************)
Digits == <<"0", "1", "2", "3", "4", "5", "6", "7", "8", "9">>

IsDigit(c) == \E d \in DOMAIN Digits : Digits[d] = c

DigitValue(c) == (CHOOSE d \in DOMAIN Digits : Digits[d] = c) - 1

LowerLetters ==
    {"a", "b", "c", "d", "e", "f", "g", "h", "i", "j", "k", "l", "m",
     "n", "o", "p", "q", "r", "s", "t", "u", "v", "w", "x", "y", "z"}

\* [a-z]
IsLower(c) == c \in LowerLetters

ToLowerChar(c) == CASE c = "J" -> "j" [] OTHER -> c

ToLowerCase(t) == [i \in 1..Len(t) |-> ToLowerChar(t[i])]

\* String.prototype.includes
Includes(t, sub) == \E i \in 1..(Len(t) - Len(sub) + 1) : SubSeq(t, i, i + Len(sub) - 1) = sub

\* String.prototype.startsWith
StartsWith(t, pre) == Len(t) >= Len(pre) /\ SubSeq(t, 1, Len(pre)) = pre

\* The last position of the run of characters in S that starts at p, or
\* p - 1 when the character at p is not in S.
RECURSIVE RunEnd(_, _, _)
RunEnd(t, p, S) == IF p <= Len(t) /\ t[p] \in S THEN RunEnd(t, p + 1, S) ELSE p - 1

DigitChars == {Digits[d] : d \in DOMAIN Digits}

\* /(\d+)\s*([a-z]+)/ matched at p: the digits from p, then spaces, then letters.
MatchesAt(t, p) ==
    /\ IsDigit(t[p])
    /\ LET w == RunEnd(t, RunEnd(t, p, DigitChars) + 1, {" "})
       IN  w + 1 <= Len(t) /\ IsLower(t[w + 1])

\* text.match(...): the leftmost match, or null.
Match(t) ==
    LET starts == {p \in 1..Len(t) : MatchesAt(t, p)}
    IN  IF starts = {} THEN None
        ELSE LET p == CHOOSE q \in starts : \A r \in starts : q <= r
                 e == RunEnd(t, p, DigitChars)
                 w == RunEnd(t, e + 1, {" "})
             IN  Some([digits |-> SubSeq(t, p, e),
                       unit |-> SubSeq(t, w + 1, RunEnd(t, w + 1, LowerLetters))])

\* A mutant: only the first digit is read.
ParseIntFirstDigit(ds) == IF ds = <<>> THEN 0 ELSE DigitValue(ds[1])

\* parseInt(match[1], 10)
RECURSIVE ParseInt(_)
ParseInt(ds) ==
    IF ds = <<>> THEN 0
    ELSE 10 * ParseInt(SubSeq(ds, 1, Len(ds) - 1)) + DigitValue(ds[Len(ds)])

Hours(num, den) == Some([num |-> num, den |-> den])

\* The age of a matched label: the unit is tested as minutes, hours, days,
\* weeks, months, years, in that order, t being the whole text.
UnitHours(t, value, unitToken) ==
    IF Includes(t, <<"m", "i", "n">>) \/ unitToken = <<"m">>
       \/ StartsWith(unitToken, <<"m", "i", "n">>)
    THEN Hours(value, 60)
    ELSE IF Includes(t, <<"h", "o", "u", "r">>) \/ unitToken = <<"h">>
            \/ Includes(unitToken, <<"h", "r">>) \/ unitToken = <<"h", "r", "s">>
    THEN Hours(value, 1)
    ELSE IF Includes(t, <<"d", "a", "y">>) \/ unitToken = <<"d">>
    THEN Hours(value * 24, 1)
    ELSE IF Includes(t, <<"w", "e", "e", "k">>) \/ StartsWith(unitToken, <<"w">>)
    THEN Hours(value * 7 * 24, 1)
    ELSE IF Includes(t, <<"m", "o", "n", "t", "h">>) \/ StartsWith(unitToken, <<"m", "o">>)
    THEN Hours(value * 30 * 24, 1)
    ELSE IF Includes(t, <<"y", "e", "a", "r">>) \/ StartsWith(unitToken, <<"y">>)
    THEN Hours(value * 365 * 24, 1)
    ELSE None

JustNow == <<"j", "u", "s", "t", " ", "n", "o", "w">>

\* The age of a label, or null. relativeTime is null (<<>>) or a text.
relativeTimeToHours(relativeTime) ==
    IF relativeTime = None \/ relativeTime[1] = <<>> THEN None
    ELSE LET text == Trim(ToLowerCase(relativeTime[1]))
         IN  IF Includes(text, JustNow) THEN Hours(0, 1)
             ELSE IF Match(text) = None THEN None
             ELSE UnitHours(text, ParseInt(Match(text)[1].digits), Match(text)[1].unit)

\* A mutant: the filter keeps ages below 24 hours only.
KeepsBelow24(item) ==
    LET hours == relativeTimeToHours(item.relativeTime)
    IN  IF hours = None THEN FALSE ELSE hours[1].num < 24 * hours[1].den

\* The callback of items.filter: hours <= 24, and false for no age.
KeepsItem(item) ==
    LET hours == relativeTimeToHours(item.relativeTime)
    IN  IF hours = None THEN FALSE ELSE hours[1].num <= 24 * hours[1].den

\* const filtered = items.filter(...)
NewsListFilter(items) == SelectSeq(items, KeepsItem)

\* The labels of the news items the backend sends.
Labels ==
    { <<"j", "u", "s", "t", " ", "n", "o", "w">>,
      <<"J", "u", "s", "t", " ", "n", "o", "w">>,
      <<"2", "3", "m", " ", "a", "g", "o">>,
      <<"2", "d", " ", "a", "g", "o">>,
      <<"1", "d", " ", "a", "g", "o">>,
      <<"3", " ", "w", "e", "e", "k", "s", " ", "a", "g", "o">>,
      <<"2", "m", "o", " ", "a", "g", "o">>,
      <<"s", "o", "o", "n">>,
      <<>>,
      <<"1", "2", "h", " ", "a", "g", "o">>,
      <<"2", "4", "h", " ", "a", "g", "o">>,
      <<"2", "5", "h", " ", "a", "g", "o">>,
      <<"1", "4", "4", "0", " ", "m", "i", "n", " ", "a", "g", "o">>,
      <<"1", "4", "4", "1", "m">>,
      <<"2", "4", " ", "h", "r", "s", " ", "a", "g", "o">>,
      <<"1", "y", " ", "a", "g", "o">>,
      <<"5", "x", " ", "a", "g", "o">>,
      <<"2", "d", " ", "a", "g", "o", " ", "5", " ", "m", "i", "n", " ", "r", "e", "a", "d">> }

\* relativeTime?: string | null
RelativeTimes == {None} \cup {Some(l) : l \in Labels}

\* A list of items: the link of an item is unique in its list.
ItemsOf(times) == [k \in 1..Len(times) |-> [link |-> k, relativeTime |-> times[k]]]

\* Items aged 0, 12, 24 and 25 hours and one with no age.
ExampleItems ==
    ItemsOf(<<Some(<<"j", "u", "s", "t", " ", "n", "o", "w">>),
              Some(<<"1", "2", "h", " ", "a", "g", "o">>),
              Some(<<"2", "4", "h", " ", "a", "g", "o">>),
              Some(<<"2", "5", "h", " ", "a", "g", "o">>),
              Some(<<"s", "o", "o", "n">>)>>)

ItemLists == {ItemsOf(times) : times \in SeqsUpTo(RelativeTimes, MaxItems)} \cup {ExampleItems}

\* NewsList renders its items.
RenderNewsList ==
    /\ last.kind # "renderNews"
    /\ filtered' = NewsListFilter(newsItems)
    /\ last' = [last EXCEPT !.kind = "renderNews"]
    /\ UNCHANGED <<appVars, tabVars, nUserActions, nRequests, formVars, newsItems, viewVars>>

(***************************************************************************)
(* The dashboard: its state after construction and its steps.              *)
(***************************************************************************)
InitApp ==
    /\ snapshots = <<>>
    /\ selected = None
    /\ loading = FALSE
    /\ error = None
    /\ batchInflight = <<>>

InitTabs ==
    /\ activeId = FreshTabs.activeId
    /\ selectedNewsUrl = FreshTabs.selectedNewsUrl
    /\ analysis = FreshTabs.analysis
    /\ loadingImpact = FreshTabs.loadingImpact
    /\ impactError = FreshTabs.impactError
    /\ articleInflight = <<>>

InitHist ==
    /\ nUserActions = 0
    /\ nRequests = 0
    /\ last = [kind |-> "init", status |-> 0, issued |-> 0, live |-> FALSE, prior |-> 0]

\* relativeTimeToHours not called.
IdleParse ==
    /\ parsedLabel = None
    /\ parsedHours = None

\* No snapshot rendered.
IdleCard ==
    /\ options = None
    /\ received = None
    /\ row = None
    /\ card = None

\* The sync effect has settled.
IdleSync ==
    /\ syncPending = FALSE
    /\ syncRuns = 0

Init ==
    /\ InitApp
    /\ InitTabs
    /\ InitHist
    /\ tickerInput = <<>>
    /\ newsItems = <<>>
    /\ filtered = <<>>
    /\ IdleParse
    /\ IdleCard
    /\ IdleSync

Next ==
    \/ \E input \in TypedInputs : HandleSubmit(input)
    \/ \E i \in Slots, result \in Responses : BatchSuccess(i, result)
    \/ \E i \in Slots, res \in HttpFailures : BatchHttpError(i, res)
    \/ \E i \in Slots, message \in NetworkErrors : BatchNetworkError(i, message)
    \/ \E k \in 1..MaxResp : RowClick(k)
    \/ \E id \in TabIds : TabChange(id)
    \/ \E k \in 1..2 : SelectArticle(k)
    \/ \E j \in Slots : AnalysisSuccess(j)
    \/ \E j \in Slots, res \in HttpFailures : AnalysisHttpError(j, res)
    \/ \E j \in Slots, message \in NetworkErrors : AnalysisNetworkError(j, message)

Spec == Init /\ [][Next]_vars

(***************************************************************************)
(* TickerForm alone: any text typed, then submitted.                       *)
(***************************************************************************)
InitForm ==
    /\ InitApp
    /\ InitTabs
    /\ InitHist
    /\ tickerInput \in TickerInputs
    /\ newsItems = <<>>
    /\ filtered = <<>>
    /\ IdleParse
    /\ IdleCard
    /\ IdleSync

SubmitTyped == HandleSubmit(tickerInput)

SpecForm == InitForm /\ [][SubmitTyped]_vars

(***************************************************************************)
(* NewsList alone: any list of items, then rendered.                       *)
(***************************************************************************)
InitNews ==
    /\ InitApp
    /\ InitTabs
    /\ InitHist
    /\ tickerInput = <<>>
    /\ newsItems \in ItemLists
    /\ filtered = <<>>
    /\ IdleParse
    /\ IdleCard
    /\ IdleSync

SpecNews == InitNews /\ [][RenderNewsList]_vars

(***************************************************************************)
(* relativeTimeToHours alone: a label, then its age.                       *)
(***************************************************************************)
\* The digits of the numbers of the generated labels.
NumeralChars == {"2", "3"}

Numerals == SeqsUpTo(NumeralChars, MaxDigits) \ {<<>>}

\* What stands between the number and the unit.
Gaps == {<<>>, <<" ">>}

UnitTokens ==
    { <<"m">>, <<"m", "i", "n">>, <<"m", "i", "n", "s">>,
      <<"h">>, <<"h", "r">>, <<"h", "r", "s">>, <<"h", "o", "u", "r", "s">>,
      <<"d">>, <<"d", "a", "y", "s">>,
      <<"w">>, <<"w", "k">>, <<"w", "e", "e", "k", "s">>,
      <<"m", "o">>, <<"m", "o", "n", "t", "h", "s">>,
      <<"y">>, <<"y", "r">>, <<"y", "e", "a", "r", "s">>,
      <<"x">> }

Ago == <<" ", "a", "g", "o">>

\* What follows the unit.
Tails ==
    { <<>>, Ago,
      Ago \o <<" ", "5", " ", "m", "i", "n", " ", "r", "e", "a", "d">>,
      Ago \o <<" ", "t", "o", "d", "a", "y">> }

LabelOf(numeral, gap, unit, tail) == numeral \o gap \o unit \o tail

GeneratedLabels ==
    {LabelOf(n, g, u, t) : n \in Numerals, g \in Gaps, u \in UnitTokens, t \in Tails}

\* Labels with a number that no letter follows.
BareNumberLabels ==
    { <<"2", "3">>, <<"2", " ">>, <<"a", "g", "o", " ", "2">>,
      <<"2", " ", "-", " ", "d">>, <<"2", ".", "5", " ", "!">> }

\* The arguments relativeTimeToHours is called with.
ParseInputs ==
    RelativeTimes \cup {Some(l) : l \in GeneratedLabels \cup BareNumberLabels}

InitParse ==
    /\ InitApp
    /\ InitTabs
    /\ InitHist
    /\ tickerInput = <<>>
    /\ newsItems = <<>>
    /\ filtered = <<>>
    /\ parsedLabel \in ParseInputs
    /\ parsedHours = None
    /\ IdleCard
    /\ IdleSync

\* const hours = relativeTimeToHours(item.relativeTime)
CallRelativeTimeToHours ==
    /\ last.kind # "parseTime"
    /\ parsedHours' = relativeTimeToHours(parsedLabel)
    /\ last' = [last EXCEPT !.kind = "parseTime"]
    /\ UNCHANGED <<appVars, tabVars, nUserActions, nRequests, formVars, newsVars,
                   parsedLabel, cardVars, syncVars>>

SpecParse == InitParse /\ [][CallRelativeTimeToHours]_vars

(***************************************************************************)
(* The derived metrics of a snapshot: a row of SymbolSummaryTable and the  *)
(* OptionSummaryCard with its two ContractsTables. A number | null field   *)
(* is <<>> or <<n>>; calls and puts are absent (<<>>) or a list; a ratio   *)
(* or a percentage is a fraction num / den.                                *)
(***************************************************************************)
\* A mutant: an absent field counts as 1.
OrOne(x) == IF x = None THEN 1 ELSE x[1]

\* x || 0, for x a number or null
OrZero(x) == IF x = None THEN 0 ELSE x[1]

\* contracts.reduce of OptionSummaryCard's computeTotals, from the i-th on.
RECURSIVE ReduceTotals(_, _, _)
ReduceTotals(contracts, i, acc) ==
    IF i > Len(contracts) THEN acc
    ELSE ReduceTotals(contracts, i + 1,
             [volume |-> acc.volume + OrZero(contracts[i].volume),
              openInterest |-> acc.openInterest + OrZero(contracts[i].openInterest)])

\* computeTotals of OptionSummaryCard.
computeTotals(contracts) ==
    IF contracts = None \/ Len(contracts[1]) = 0
    THEN [volume |-> 0, openInterest |-> 0]
    ELSE ReduceTotals(contracts[1], 1, [volume |-> 0, openInterest |-> 0])

\* contracts.reduce of SymbolSummaryTable's computeTotals, from the i-th on.
RECURSIVE ReduceTableTotals(_, _, _)
ReduceTableTotals(contracts, i, acc) ==
    IF i > Len(contracts) THEN acc
    ELSE ReduceTableTotals(contracts, i + 1,
             [volume |-> acc.volume + OrZero(contracts[i].volume),
              oi |-> acc.oi + OrZero(contracts[i].openInterest)])

\* computeTotals of SymbolSummaryTable.
computeTableTotals(contracts) ==
    IF contracts = None \/ Len(contracts[1]) = 0
    THEN [volume |-> 0, oi |-> 0]
    ELSE ReduceTableTotals(contracts[1], 1, [volume |-> 0, oi |-> 0])

Fraction(num, den) == Some([num |-> num, den |-> den])

\* A mutant: the ratio is computed whatever the call total.
putCallRatioUnguarded(callTotals, putTotals) ==
    Fraction(putTotals.openInterest, callTotals.openInterest)

\* OptionSummaryCard: putCallRatio
putCallRatio(callTotals, putTotals) ==
    IF callTotals.openInterest > 0
    THEN Fraction(putTotals.openInterest, callTotals.openInterest)
    ELSE None

\* SymbolSummaryTable: pcr
pcr(callTotals, putTotals) ==
    IF callTotals.volume + callTotals.oi > 0
    THEN Fraction(putTotals.volume + putTotals.oi, callTotals.volume + callTotals.oi)
    ELSE None

\* A mutant: a ratio of exactly 0.7 is call-heavy.
sentimentLabelInclusive(ratio) ==
    IF ratio = None THEN "Neutral"
    ELSE IF 10 * ratio[1].num <= 7 * ratio[1].den THEN "Call-heavy (Bullish)"
    ELSE IF 10 * ratio[1].num > 13 * ratio[1].den THEN "Put-heavy (Bearish)"
    ELSE "Neutral"

\* OptionSummaryCard: sentimentLabel, for putCallRatio < 0.7 and > 1.3
sentimentLabel(ratio) ==
    IF ratio = None THEN "Neutral"
    ELSE IF 10 * ratio[1].num < 7 * ratio[1].den THEN "Call-heavy (Bullish)"
    ELSE IF 10 * ratio[1].num > 13 * ratio[1].den THEN "Put-heavy (Bearish)"
    ELSE "Neutral"

\* SymbolSummaryTable: pcrClass, for pcr < 0.7 and > 1.3
pcrClass(ratio) ==
    IF ratio = None THEN "text-slate-200"
    ELSE IF 10 * ratio[1].num < 7 * ratio[1].den THEN "text-emerald-400"
    ELSE IF 10 * ratio[1].num > 13 * ratio[1].den THEN "text-rose-400"
    ELSE "text-slate-200"

\* x is truthy, for x a number or null
Truthy(x) == x # None /\ x[1] # 0

\* SymbolSummaryTable: volDeltaPct
volDeltaPct(opt) ==
    IF opt # None /\ Truthy(opt[1].avg_volume_3m) /\ Truthy(opt[1].volume)
    THEN Fraction((opt[1].volume[1] - opt[1].avg_volume_3m[1]) * 100, opt[1].avg_volume_3m[1])
    ELSE None

\* parseInt((volDeltaPct || 0).toString()): the integer part.
VolumePctCell(delta) ==
    IF delta = None THEN 0
    ELSE IF delta[1].num >= 0 THEN delta[1].num \div delta[1].den
    ELSE -((-delta[1].num) \div delta[1].den)

\* opt?.calls and opt?.puts
CallsOf(opt) == IF opt = None THEN None ELSE opt[1].calls

PutsOf(opt) == IF opt = None THEN None ELSE opt[1].puts

\* What the callback of snapshots.map computes for a snapshot.
SummaryRow(opt) ==
    LET callTotals == computeTableTotals(CallsOf(opt))
        putTotals == computeTableTotals(PutsOf(opt))
    IN  [callTotals |-> callTotals,
         putTotals |-> putTotals,
         pcr |-> pcr(callTotals, putTotals),
         pcrClass |-> pcrClass(pcr(callTotals, putTotals)),
         volDeltaPct |-> volDeltaPct(opt),
         volumePct |-> VolumePctCell(volDeltaPct(opt))]

\* The comparator of the sort puts c after the elements of sorted that have
\* at least its open interest; Array.prototype.sort is stable.
InsertByOpenInterest(sorted, c) ==
    LET k == Cardinality({i \in DOMAIN sorted :
                 OrZero(sorted[i].openInterest) >= OrZero(c.openInterest)})
    IN  SubSeq(sorted, 1, k) \o <<c>> \o SubSeq(sorted, k + 1, Len(sorted))

RECURSIVE SortFrom(_, _, _)
SortFrom(contracts, i, sorted) ==
    IF i > Len(contracts) THEN sorted
    ELSE SortFrom(contracts, i + 1, InsertByOpenInterest(sorted, contracts[i]))

\* contracts.sort((a, b) => (b.openInterest || 0) - (a.openInterest || 0)):
\* the array itself, after the call.
SortByOpenInterest(contracts) == SortFrom(contracts, 1, <<>>)

\* .slice(0, 8)
TopCount == 8

Slice(contracts, n) == SubSeq(contracts, 1, IF Len(contracts) < n THEN Len(contracts) ELSE n)

\* ContractsTable: the contracts prop after the render and the rows shown.
ContractsTable(contracts) ==
    IF contracts = None \/ Len(contracts[1]) = 0
    THEN [contracts |-> contracts, top |-> <<>>]
    ELSE [contracts |-> Some(SortByOpenInterest(contracts[1])),
          top |-> Slice(SortByOpenInterest(contracts[1]), TopCount)]

\* What OptionSummaryCard computes and shows for the options prop.
OptionSummaryCard(opt) ==
    IF opt = None
    THEN [noData |-> TRUE,
          callTotals |-> [volume |-> 0, openInterest |-> 0],
          putTotals |-> [volume |-> 0, openInterest |-> 0],
          putCallRatio |-> None, sentimentLabel |-> "",
          topCalls |-> <<>>, topPuts |-> <<>>]
    ELSE LET callTotals == computeTotals(opt[1].calls)
             putTotals == computeTotals(opt[1].puts)
         IN  [noData |-> FALSE,
              callTotals |-> callTotals,
              putTotals |-> putTotals,
              putCallRatio |-> putCallRatio(callTotals, putTotals),
              sentimentLabel |-> sentimentLabel(putCallRatio(callTotals, putTotals)),
              topCalls |-> ContractsTable(opt[1].calls).top,
              topPuts |-> ContractsTable(opt[1].puts).top]

\* The options prop after the render: the two ContractsTables sort the
\* arrays they are given.
OptionsAfterCard(opt) ==
    IF opt = None THEN opt
    ELSE Some([opt[1] EXCEPT !.calls = ContractsTable(opt[1].calls).contracts,
                             !.puts = ContractsTable(opt[1].puts).contracts])

\* The contracts the backend sends: their volume and open interest.
Contracts ==
    { [volume |-> None, openInterest |-> None],
      [volume |-> Some(3), openInterest |-> Some(0)],
      [volume |-> Some(6), openInterest |-> Some(7)],
      [volume |-> Some(0), openInterest |-> Some(10)],
      [volume |-> None, openInterest |-> Some(13)] }

\* calls?: OptionContract[]
ContractLists == {None} \cup {Some(l) : l \in SeqsUpTo(Contracts, MaxContracts)}

\* volume: number | null, and avg_volume_3m: number | null
Volumes == {None, Some(0), Some(50), Some(150)}

AvgVolumes == {None, Some(0), Some(100)}

\* options: OptionsSnapshot | null, as fetchMultiSnapshot returns it.
OptionsSnapshots ==
    {None}
    \cup {Some([calls |-> c, puts |-> p, volume |-> Some(150), avg_volume_3m |-> Some(100)]) :
            c \in ContractLists, p \in ContractLists}
    \cup {Some([calls |-> Some(<<[volume |-> Some(0), openInterest |-> Some(10)]>>),
                puts |-> Some(<<[volume |-> Some(6), openInterest |-> Some(7)]>>),
                volume |-> v, avg_volume_3m |-> a]) :
            v \in Volumes, a \in AvgVolumes}

InitCard ==
    /\ InitApp
    /\ InitTabs
    /\ InitHist
    /\ tickerInput = <<>>
    /\ newsItems = <<>>
    /\ filtered = <<>>
    /\ IdleParse
    /\ options \in OptionsSnapshots
    /\ received = options
    /\ row = None
    /\ card = None
    /\ IdleSync

\* SymbolSummaryTable renders the row of the snapshot.
RenderSummaryTable ==
    /\ row' = Some(SummaryRow(options))
    /\ UNCHANGED <<appVars, tabVars, histVars, formVars, newsVars, parseVars,
                   options, received, card, syncVars>>

\* The overview tab renders OptionSummaryCard for the snapshot.
RenderOptionSummaryCard ==
    /\ card' = Some(OptionSummaryCard(options))
    /\ options' = OptionsAfterCard(options)
    /\ UNCHANGED <<appVars, tabVars, histVars, formVars, newsVars, parseVars,
                   received, row, syncVars>>

NextCard ==
    \/ RenderSummaryTable
    \/ RenderOptionSummaryCard

SpecCard == InitCard /\ [][NextCard]_vars

(***************************************************************************)
(* The sync effect of App alone: any snapshot list and any selection, then *)
(* the effect run by run. React runs an effect after the commit in which a *)
(* dependency changed, and setSelected with the value already held causes  *)
(* no new render.                                                          *)
(***************************************************************************)
\* selected: SymbolSnapshot | null: nothing, a snapshot the backend may send
\* again, or a snapshot of an earlier result whose ticker it sends no more.
Selections ==
    {None} \cup {Some(snap) : snap \in Snaps} \cup {Some([ticker |-> "C", news |-> <<>>])}

InitSync ==
    /\ snapshots \in Responses
    /\ selected \in Selections
    /\ loading = FALSE
    /\ error = None
    /\ batchInflight = <<>>
    /\ InitTabs
    /\ InitHist
    /\ tickerInput = <<>>
    /\ newsItems = <<>>
    /\ filtered = <<>>
    /\ IdleParse
    /\ IdleCard
    /\ syncPending = TRUE
    /\ syncRuns = 0

\* One run of the effect on [selected, snapshots].
SyncRun ==
    /\ syncPending
    /\ syncRuns < MaxSyncRuns
    /\ selected' = SyncEffect(snapshots, selected)
    /\ syncPending' = (SyncEffect(snapshots, selected) # selected)
    /\ syncRuns' = syncRuns + 1
    /\ UNCHANGED <<snapshots, loading, error, batchInflight, tabVars, histVars,
                   formVars, newsVars, parseVars, cardVars>>

\* React runs every effect that is due.
SpecSync == InitSync /\ [][SyncRun]_vars /\ WF_vars(SyncRun)

(***************************************************************************)
(* Properties.                                                             *)
(***************************************************************************)
\* C1: when a batch request succeeds, the snapshot list becomes exactly the
\* response list and the selection becomes its first element, or null for
\* an empty response.
C1_SuccessReplacesResults ==
    [][\A i \in Slots, result \in Responses :
          BatchSuccess(i, result) =>
              /\ snapshots' = result
              /\ selected' = IF result = <<>> THEN None ELSE Some(result[1])]_vars

C1_Witness ==
    /\ last.kind = "batchSuccess"
    /\ last.prior > 0
    /\ Len(snapshots) = 2
    /\ snapshots[1].ticker # snapshots[2].ticker
    /\ selected = Some(snapshots[1])

\* C2: a batch response that is not ok leaves an error message holding the
\* status code and the body text, no snapshots, no selection, and loading
\* false.
C2_HttpErrorClearsResults ==
    [][\A i \in Slots, res \in HttpFailures :
          BatchHttpError(i, res) =>
              /\ error' # None
              /\ ToString(res.status) \in Range(error'[1])
              /\ res.text \in Range(error'[1])
              /\ snapshots' = <<>>
              /\ selected' = None
              /\ loading' = FALSE]_vars

C2_Witness ==
    /\ last.kind = "batchHttpError"
    /\ last.status = 404
    /\ last.prior > 0
    /\ snapshots = <<>>
    /\ error # None
    /\ "404" \in Range(error[1])

\* C3: at most one batch request is in flight.
C3_OneBatchInFlight == Len(batchInflight) <= 1

C3_Witness ==
    /\ Len(batchInflight) = 1
    /\ loading
    /\ nRequests >= 2
    /\ Len(snapshots) > 0

\* C4: at most one article-analysis request is in flight.
C4_OneArticleRequestInFlight == Len(articleInflight) <= 1

\* C5, as stated: a failed article-analysis request sets the analysis to
\* none, sets the impact error and ends loadingImpact, and changes nothing
\* of the snapshots, the selection, the active tab, the selected article
\* and the batch error.
C5_FailureSetsImpactError ==
    [][\A j \in Slots :
          (\/ \E res \in HttpFailures : AnalysisHttpError(j, res)
           \/ \E message \in NetworkErrors : AnalysisNetworkError(j, message)) =>
              /\ analysis' = None
              /\ impactError' # None
              /\ loadingImpact' = FALSE
              /\ UNCHANGED <<snapshots, selected, activeId, selectedNewsUrl, error>>]_vars

\* C5, amended: the failure of a request of the mounted SymbolTabs sets the
\* analysis to none, the impact error (with the status code and body text of
\* a response that is not ok) and loadingImpact to false; the failure of a
\* request of an unmounted SymbolTabs changes none of the three; neither
\* changes the snapshots, the selection, the active tab, the selected
\* article or the batch error.
C5_FailureTouchesAnalysisPaneOnly ==
    [][\A j \in Slots :
          /\ \A res \in HttpFailures :
                (AnalysisHttpError(j, res) /\ articleInflight[j].live) =>
                    /\ impactError' # None
                    /\ ToString(res.status) \in Range(impactError'[1])
                    /\ res.text \in Range(impactError'[1])
          /\ (\/ \E res \in HttpFailures : AnalysisHttpError(j, res)
              \/ \E message \in NetworkErrors : AnalysisNetworkError(j, message)) =>
                 /\ IF articleInflight[j].live
                    THEN analysis' = None /\ impactError' # None /\ loadingImpact' = FALSE
                    ELSE UNCHANGED <<analysis, impactError, loadingImpact>>
                 /\ UNCHANGED <<snapshots, selected, activeId, selectedNewsUrl, error>>]_vars

C5_Witness ==
    /\ last.kind = "analysisHttpError"
    /\ last.live
    /\ last.status = 500
    /\ impactError # None
    /\ "500" \in Range(impactError[1])
    /\ analysis = None
    /\ ~loadingImpact
    /\ activeId = "impact"
    /\ Len(snapshots) > 0

\* C6: no request is retried: a step issues no more requests than the user
\* actions it takes, so the requests issued never exceed the user actions.
C6_NoRetry ==
    [][/\ nRequests' - nRequests <= nUserActions' - nUserActions
       /\ nRequests' <= nUserActions']_vars

C6_Witness ==
    /\ last.kind \in {"batchHttpError", "batchNetworkError"}
    /\ nRequests = 3
    /\ nUserActions = 3
    /\ batchInflight = <<>>
    /\ articleInflight = <<>>

\* A ticker input of separators only (or of nothing).
C7_NoTicker(input) == \A k \in DOMAIN input : input[k] = "," \/ input[k] = " "

\* C7: submitting an input that yields no ticker sends no request and leaves
\* loading, the error, the snapshots and the selection as they are.
C7_EmptySubmitIsNoOp ==
    [][\A input \in TypedInputs :
          (HandleSubmit(input) /\ C7_NoTicker(input)) =>
              /\ UNCHANGED <<loading, error, snapshots, selected, batchInflight>>
              /\ nRequests' = nRequests]_vars

C7_Witness ==
    /\ last.kind = "submitEmpty"
    /\ tickerInput = <<",", " ">>
    /\ Len(snapshots) > 0
    /\ ~loading
    /\ batchInflight = <<>>

\* The tickers of an input, read off the input: its maximal runs of
\* characters other than commas and whitespace, in order, in upper case.
C8_Upper(c) == IF c = "a" THEN "A" ELSE IF c = "b" THEN "B" ELSE c

C8_Starts(s) ==
    {i \in 1..Len(s) : s[i] \notin {",", " "} /\ (i = 1 \/ s[i - 1] \in {",", " "})}

C8_End(s, i) ==
    CHOOSE j \in i..Len(s) :
        /\ \A k \in i..j : s[k] \notin {",", " "}
        /\ j = Len(s) \/ s[j + 1] \in {",", " "}

C8_Start(s, n) ==
    CHOOSE i \in C8_Starts(s) : Cardinality({j \in C8_Starts(s) : j < i}) = n - 1

C8_Tickers(s) ==
    [n \in 1..Cardinality(C8_Starts(s)) |->
        [k \in 1..(C8_End(s, C8_Start(s, n)) - C8_Start(s, n) + 1) |->
            C8_Upper(s[C8_Start(s, n) + k - 1])]]

\* C8: the ticker list of a batch request is the input split on runs of
\* commas and whitespace, in input order, every element in upper case,
\* none empty, none with whitespace or a comma.
C8_TickersAreSplitUpperCased ==
    \A r \in Range(batchInflight) :
        /\ r.tickers = C8_Tickers(tickerInput)
        /\ \A n \in DOMAIN r.tickers :
              /\ r.tickers[n] # <<>>
              /\ \A k \in DOMAIN r.tickers[n] : r.tickers[n][k] \notin {",", " ", "a", "b"}

C8_Witness ==
    /\ tickerInput = <<"A", ",", " ", "b">>
    /\ batchInflight = <<[tickers |-> <<<<"A">>, <<"B">>>>]>>

\* C9: the tickers of a batch request are a non-empty set: no symbol twice.
C9_TickersAreASet ==
    \A r \in Range(batchInflight) :
        /\ Len(r.tickers) > 0
        /\ \A m, n \in DOMAIN r.tickers : r.tickers[m] = r.tickers[n] => m = n

\* An item of at most 24 hours of age.
C10_Fresh(item) ==
    /\ relativeTimeToHours(item.relativeTime) # None
    /\ relativeTimeToHours(item.relativeTime)[1].num
           <= 24 * relativeTimeToHours(item.relativeTime)[1].den

\* C10: the list NewsList renders holds exactly the items of at most 24
\* hours of age, in their order; of items aged 0, 12, 24, 25 hours and one
\* of no age it holds the first three.
C10_FilterKeepsLast24Hours ==
    last.kind = "renderNews" =>
        /\ \A k \in DOMAIN filtered : filtered[k] \in Range(newsItems) /\ C10_Fresh(filtered[k])
        /\ \A i \in DOMAIN newsItems : C10_Fresh(newsItems[i]) => newsItems[i] \in Range(filtered)
        /\ \A k, l \in DOMAIN filtered : k < l => filtered[k].link < filtered[l].link
        /\ newsItems = ExampleItems => filtered = SubSeq(ExampleItems, 1, 3)

C10_Witness ==
    /\ last.kind = "renderNews"
    /\ newsItems = ExampleItems
    /\ Len(filtered) = 3

\* The number a numeral writes, read from its first digit on.
RECURSIVE C11_ValueFrom(_, _, _)
C11_ValueFrom(numeral, i, acc) ==
    IF i > Len(numeral) THEN acc
    ELSE C11_ValueFrom(numeral, i + 1,
             10 * acc + (CASE numeral[i] = "2" -> 2 [] numeral[i] = "3" -> 3 [] OTHER -> 0))

C11_Value(numeral) == C11_ValueFrom(numeral, 1, 0)

\* An age is num / den hours.
C11_Is(age, num, den) == age # None /\ age[1].num * den = num * age[1].den

\* The hours of one unit, by the token that names it; 0 for no unit.
C11_HoursPerUnit(unit) ==
    CASE unit \in {<<"h">>, <<"h", "r">>, <<"h", "r", "s">>, <<"h", "o", "u", "r", "s">>} -> 1
      [] unit \in {<<"d">>, <<"d", "a", "y", "s">>} -> 24
      [] unit \in {<<"w">>, <<"w", "k">>, <<"w", "e", "e", "k", "s">>} -> 168
      [] unit \in {<<"m", "o">>, <<"m", "o", "n", "t", "h", "s">>} -> 720
      [] unit \in {<<"y">>, <<"y", "r">>, <<"y", "e", "a", "r", "s">>} -> 8760
      [] OTHER -> 0

C11_Numerals == {"0", "1", "2", "3", "4", "5", "6", "7", "8", "9"}

\* The label holds digits, then spaces or nothing, then a lower-case letter.
C11_HasToken(label) ==
    \E i, j \in DOMAIN label :
        /\ i < j
        /\ label[i] \in C11_Numerals
        /\ label[j] \in LowerLetters
        /\ \E m \in i..(j - 1) :
              /\ \A k \in i..m : label[k] \in C11_Numerals
              /\ \A k \in (m + 1)..(j - 1) : label[k] = " "

C11_Minutes == {<<"m">>, <<"m", "i", "n">>, <<"m", "i", "n", "s">>}

\* C11: relativeTimeToHours returns null for an absent or empty label and
\* for a label without a number-and-letters token, 0 for "just now", and
\* otherwise n/60, n, 24n, 168n, 720n or 8760n for the number n of the first
\* token, by its unit: of a label that is the token alone or the token and
\* " ago", the age is that of the token's unit, null for an unknown unit.
\* "23m ago" is 23/60, "2d ago" 48, "3 weeks ago" 504, "2mo ago" 1440.
C11_ParsesRelativeTime ==
    last.kind = "parseTime" =>
        /\ parsedLabel \in {None, Some(<<>>), Some(<<"s", "o", "o", "n">>)} =>
               parsedHours = None
        /\ (parsedLabel # None /\ ~C11_HasToken(parsedLabel[1])) =>
               IF parsedLabel[1] \in {<<"j", "u", "s", "t", " ", "n", "o", "w">>,
                                      <<"J", "u", "s", "t", " ", "n", "o", "w">>}
               THEN C11_Is(parsedHours, 0, 1)
               ELSE parsedHours = None
        /\ \A n \in Numerals, g \in Gaps, u \in UnitTokens, t \in Tails :
              parsedLabel = Some(LabelOf(n, g, u, t)) =>
                  /\ \/ parsedHours = None
                     \/ \E f \in {1, 24, 168, 720, 8760} : C11_Is(parsedHours, f * C11_Value(n), 1)
                     \/ C11_Is(parsedHours, C11_Value(n), 60)
                  /\ t \in {<<>>, Ago} =>
                        IF u \in C11_Minutes THEN C11_Is(parsedHours, C11_Value(n), 60)
                        ELSE IF C11_HoursPerUnit(u) = 0 THEN parsedHours = None
                        ELSE C11_Is(parsedHours, C11_HoursPerUnit(u) * C11_Value(n), 1)
        /\ parsedLabel = Some(<<"2", "3", "m", " ", "a", "g", "o">>) => C11_Is(parsedHours, 23, 60)
        /\ parsedLabel = Some(<<"2", "d", " ", "a", "g", "o">>) => C11_Is(parsedHours, 48, 1)
        /\ parsedLabel = Some(<<"3", " ", "w", "e", "e", "k", "s", " ", "a", "g", "o">>) =>
               C11_Is(parsedHours, 504, 1)
        /\ parsedLabel = Some(<<"2", "m", "o", " ", "a", "g", "o">>) => C11_Is(parsedHours, 1440, 1)

C11_Witness ==
    /\ last.kind = "parseTime"
    /\ parsedLabel = Some(<<"2", "3", "m", " ", "a", "g", "o">>)
    /\ parsedHours = Some([num |-> 23, den |-> 60])

\* C12: the unit is that of the first number-and-letters token alone: a
\* label has the age of its first token whatever text follows the token, a
\* token "m" is minutes and a token that starts with "mo" is months.
C12_UnitFromFirstTokenAlone ==
    last.kind = "parseTime" =>
        \A n \in Numerals, g \in Gaps, u \in UnitTokens, t \in Tails :
            parsedLabel = Some(LabelOf(n, g, u, t)) =>
                /\ parsedHours = relativeTimeToHours(Some(LabelOf(n, g, u, <<>>)))
                /\ u = <<"m">> => C11_Is(parsedHours, C11_Value(n), 60)
                /\ (Len(u) >= 2 /\ u[1] = "m" /\ u[2] = "o") =>
                       C11_Is(parsedHours, 720 * C11_Value(n), 1)

\* The sum of a field over a list of contracts, an absent field as 0; 0 for
\* an absent list.
RECURSIVE C13_SumOf(_, _)
C13_SumOf(list, field) ==
    IF list = <<>> THEN 0
    ELSE (IF Head(list)[field] = <<>> THEN 0 ELSE Head(list)[field][1])
         + C13_SumOf(Tail(list), field)

C13_Sum(contracts, field) == IF contracts = <<>> THEN 0 ELSE C13_SumOf(contracts[1], field)

C13_Calls == IF received = <<>> THEN <<>> ELSE received[1].calls

C13_Puts == IF received = <<>> THEN <<>> ELSE received[1].puts

\* C13: computeTotals returns the sum of the volume fields and the sum of
\* the openInterest fields of the list, null counted as 0, and 0 and 0 for
\* an empty or absent list, in the summary table and in the detail card;
\* computing them leaves the list as it is, and computing them again gives
\* the same totals.
C13_TotalsAreSums ==
    [][/\ RenderSummaryTable =>
              /\ row'[1].callTotals = [volume |-> C13_Sum(C13_Calls, "volume"),
                                       oi |-> C13_Sum(C13_Calls, "openInterest")]
              /\ row'[1].putTotals = [volume |-> C13_Sum(C13_Puts, "volume"),
                                      oi |-> C13_Sum(C13_Puts, "openInterest")]
              /\ options' = options
              /\ row # None =>
                    /\ row'[1].callTotals = row[1].callTotals
                    /\ row'[1].putTotals = row[1].putTotals
       /\ (RenderOptionSummaryCard /\ options # None) =>
              /\ card'[1].callTotals = [volume |-> C13_Sum(C13_Calls, "volume"),
                                        openInterest |-> C13_Sum(C13_Calls, "openInterest")]
              /\ card'[1].putTotals = [volume |-> C13_Sum(C13_Puts, "volume"),
                                       openInterest |-> C13_Sum(C13_Puts, "openInterest")]
              /\ card # None =>
                    /\ card'[1].callTotals = card[1].callTotals
                    /\ card'[1].putTotals = card[1].putTotals]_vars

\* A list of a contract with a volume and one without, and an absent list.
C13_Witness ==
    /\ row # None
    /\ card # None
    /\ received # None
    /\ received[1].calls = Some(<<[volume |-> Some(6), openInterest |-> Some(7)],
                                  [volume |-> None, openInterest |-> Some(13)]>>)
    /\ received[1].puts = None
    /\ card[1].callTotals = [volume |-> 6, openInterest |-> 20]
    /\ row[1].callTotals = [volume |-> 6, oi |-> 20]
    /\ card[1].putTotals = [volume |-> 0, openInterest |-> 0]

\* C14: in the detail card the put/call ratio is the put open interest
\* total divided by the call open interest total when the call total is
\* greater than 0, and absent when the call total is 0, whatever the put
\* total; no ratio has a zero divisor.
C14_RatioGuardsZeroCalls ==
    (card # None /\ ~card[1].noData) =>
        IF C13_Sum(C13_Calls, "openInterest") > 0
        THEN /\ card[1].putCallRatio # None
             /\ card[1].putCallRatio[1].den # 0
             /\ card[1].putCallRatio[1].num * C13_Sum(C13_Calls, "openInterest")
                    = C13_Sum(C13_Puts, "openInterest") * card[1].putCallRatio[1].den
        ELSE card[1].putCallRatio = None

C14_Witness ==
    /\ card # None
    /\ ~card[1].noData
    /\ card[1].callTotals.openInterest = 0
    /\ card[1].callTotals.volume > 0
    /\ card[1].putTotals.openInterest = 7
    /\ card[1].putCallRatio = None

\* The sentiment of a ratio num / den with den > 0, or of no ratio.
C15_Sentiment(ratio) ==
    IF ratio # <<>> /\ 10 * ratio[1].num < 7 * ratio[1].den THEN "bullish"
    ELSE IF ratio # <<>> /\ 10 * ratio[1].num > 13 * ratio[1].den THEN "bearish"
    ELSE "neutral"

C16_VolumeDeltaPercent ==
    (row # None /\ received # None) =>
        IF /\ received[1].volume # None
           /\ received[1].avg_volume_3m # None
           /\ received[1].avg_volume_3m[1] # 0
        THEN /\ row[1].volDeltaPct # None
             /\ row[1].volDeltaPct[1].num * received[1].avg_volume_3m[1]
                    = (received[1].volume[1] - received[1].avg_volume_3m[1]) * 100
                          * row[1].volDeltaPct[1].den
        ELSE row[1].volDeltaPct = None

\* C18: the calls and puts of a snapshot stay as the fetch response held
\* them, in order and in content, whatever is rendered.
C18_SnapshotsNotMutated == options = received

\* C17: the response to an article-analysis request of the mounted
\* SymbolTabs is written into the analysis state whichever article and
\* snapshot are selected when it arrives, and ends loadingImpact: no
\* response is discarded for being stale.
C17_StaleResponseIsWritten ==
    [][\A j \in Slots :
          (AnalysisSuccess(j) /\ articleInflight[j].live) =>
              /\ analysis' = Some([url |-> articleInflight[j].url,
                                   ticker |-> articleInflight[j].ticker])
              /\ loadingImpact' = FALSE]_vars

\* The analysis shown is of another article than the one selected.
C17_Witness ==
    /\ last.kind = "analysisSuccess"
    /\ last.live
    /\ activeId = "impact"
    /\ ~loadingImpact
    /\ analysis # None
    /\ selectedNewsUrl # None
    /\ analysis[1].url # selectedNewsUrl[1]
    /\ analysis[1].ticker = selected[1].ticker
    /\ nRequests = 3

\* C19: the selection is null exactly when there are no snapshots, and
\* otherwise it is one of the current snapshots.
C19_SelectionInSnapshots ==
    /\ selected = None <=> snapshots = <<>>
    /\ selected # None => \E k \in DOMAIN snapshots : snapshots[k] = selected[1]

C19_Witness ==
    /\ last.kind = "rowClick"
    /\ last.prior = 2
    /\ nRequests = 2
    /\ selected = Some(snapshots[2])
    /\ snapshots[1].ticker # snapshots[2].ticker

\* C20: the sync effect stops changing the selection: it runs at most twice
\* from any snapshot list and selection, and from some point on it is not
\* due again.
C20_SyncEffectSettles ==
    /\ [](syncRuns <= 2)
    /\ <>[](~syncPending /\ selected = SyncEffect(snapshots, selected))

\* Two runs, for a list that holds the selected ticker twice.
C20_Witness ==
    /\ syncRuns = 2
    /\ ~syncPending
    /\ Len(snapshots) = 2
    /\ snapshots[1].ticker = snapshots[2].ticker
    /\ snapshots[1] # snapshots[2]
    /\ selected = Some(snapshots[1])

\* C21: a batch error and snapshots are never held together: while the
\* error is not null the snapshot list is empty.
C21_ErrorImpliesNoSnapshots == error # None => snapshots = <<>>

\* A failed search after a search that had brought results.
C21_Witness ==
    /\ last.kind = "batchNetworkError"
    /\ last.prior > 0
    /\ nRequests = 2
    /\ error = Some(<<"Failed to fetch data">>)
    /\ snapshots = <<>>
    /\ ~loading

\* C22: every analyzeArticle request pairs a ticker with the link of one of
\* that ticker's own news items.
C22_RequestPairsTickerWithOwnArticle ==
    \A k \in DOMAIN articleInflight :
        \E snap \in Snaps :
            /\ snap.ticker = articleInflight[k].ticker
            /\ \E n \in DOMAIN snap.news : snap.news[n] = articleInflight[k].url

\* C23: loadingImpact is true while a request of the mounted SymbolTabs is
\* in flight.
C23_LoadingWhileInFlight ==
    (\E k \in DOMAIN articleInflight : articleInflight[k].live) => loadingImpact

\* C24: the analysis and the impact error are not both present.
C24_AnalysisXorError == ~(analysis # None /\ impactError # None)

\* The ratio of the row and the ratio of the card are the same number.
C25_SameRatio(a, b) ==
    IF a = <<>> \/ b = <<>> THEN a = b
    ELSE a[1].num * b[1].den = b[1].num * a[1].den

\* C25: the put/call ratio of a snapshot's row in the summary table and the
\* one of its detail card are both absent or the same number, and the two
\* are classified alike.
C25_TableAndCardAgree ==
    (row # None /\ card # None /\ ~card[1].noData) =>
        /\ C25_SameRatio(row[1].pcr, card[1].putCallRatio)
        /\ row[1].pcrClass = "text-emerald-400" <=> card[1].sentimentLabel = "Call-heavy (Bullish)"
        /\ row[1].pcrClass = "text-rose-400" <=> card[1].sentimentLabel = "Put-heavy (Bearish)"

====
